---------------------------- MODULE Spec2Model ----------------------------
(***************************************************************************)
(* Blush oscillator (src/src/lib.rs): the Osc plugin's state, its          *)
(* lifecycle callbacks initialize() and reset(), and the per-sample loop   *)
(* of process(), stepped one statement group at a time.                    *)
(*                                                                         *)
(* Numbers.  f32 values are modelled exactly on integer grids:             *)
(*   - frequencies and sample rates in Hz;                                 *)
(*   - the phase in units of 1/PhaseDen of a cycle (1.0 = PhaseDen), with  *)
(*     Inf standing for the f32 value +infinity (absorbing under + and -); *)
(*   - amplitudes (velocity, pressure, smoother values) in twelfths        *)
(*     (1.0 = 12); the master gain in dB.                                  *)
(* f32 rounding is not modelled, except that a smoother's step size, which *)
(* is a quotient, is truncated to the grid.                                *)
(*                                                                         *)
(* nih_plug.  Smoother, util::midi_note_to_freq, ProcessContext and the    *)
(* parameter wrapper are library code the program calls; they are modelled *)
(* by what the library does at the call sites in lib.rs.                   *)
(***************************************************************************)
EXTENDS Integers, Sequences, FiniteSets, TLC

VARIABLES
    sample_rate,     \* Osc.sample_rate
    phase,           \* Osc.phase
    midi_note_id,    \* Osc.midi_note_id
    midi_note_freq,  \* Osc.midi_note_freq
    midi_note_gain,  \* Osc.midi_note_gain : Smoother<f32>
    gain_smoothed,   \* Osc.params.gain.smoothed : Smoother<f32>
    initialized,     \* the host has called initialize()
    pc,              \* position in process(): "idle" outside it
    sid,             \* process(): sample index of the current iteration
    block_len,       \* process(): number of samples of the buffer
    events,          \* process(): events context.next_event() has yet to return
    gain,            \* process(): the local `gain` of the current iteration
    out,             \* process(): the sample last written to each channel
    block_events,    \* history: the events the host supplied for this block
    pulled,          \* history: how many of them next_event() has returned
    dispatched,      \* history: the events that reached the match, in order
    gain_calls,      \* history: calls of params.gain.smoothed.next() this block
    amp_calls,       \* history: calls of midi_note_gain.next() this block
    ramp,            \* history: midi_note_gain since its last set_target, and
                     \* whether a NoteOff closed it since the last NoteOn
    note_on_seen,    \* history: a NoteOn was supplied since power-on/reset
    after_reset,     \* history: reset() was the last callback to run
    samples_done,    \* history: samples processed so far, over all blocks
    events_used      \* history: events supplied so far, over all blocks

vars == << sample_rate, phase, midi_note_id, midi_note_freq, midi_note_gain,
           gain_smoothed, initialized, pc, sid, block_len, events, gain, out,
           block_events, pulled, dispatched, gain_calls, amp_calls, ramp,
           note_on_seen, after_reset, samples_done, events_used >>

-----------------------------------------------------------------------------
(* Bounds of the model *)

\* samples processed and events supplied, over all calls of process()
MaxSamples == 2
MaxEvents == 2

(* Input domains *)

Notes == {0, 69}
Velocities == {12}
Pressures == {6}
SampleRates == {-400, 0, 250, 400}
GainTargets == {0}
Channels == {1, 2}

-----------------------------------------------------------------------------
(* f32 on the model's grids *)

\* a common multiple of the sample rates' magnitudes, so that frequency /
\* sample_rate is exact on the phase grid
PhaseDen == 8 * 250

Inf == PhaseDen * PhaseDen

FAdd(a, b) == IF a = Inf \/ b = Inf THEN Inf ELSE a + b

FSub(a, b) == IF a = Inf THEN Inf ELSE a - b

FDiv(a, b) ==
    IF b = 0 THEN Inf
    ELSE IF b > 0 THEN (a * PhaseDen) \div b
    ELSE -((a * PhaseDen) \div (-b))

TruncDiv(a, n) == IF a >= 0 THEN a \div n ELSE -((-a) \div n)

-----------------------------------------------------------------------------
(* nih_plug::Smoother<f32> with SmoothingStyle::Linear(ms) *)

Smoother_new(ms, value) ==
    [ms |-> ms, current |-> value, target |-> value, steps_left |-> 0, step_size |-> 0]

\* num_steps with the time taken in hundredths of a second
num_steps_centis(ms, sr) ==
    IF sr * ms <= 0 THEN 0 ELSE (sr * ms + 50) \div 100

\* SmoothingStyle::num_steps: (sample_rate * time / 1000.0).round() as u32
num_steps(ms, sr) ==
    IF sr * ms <= 0 THEN 0 ELSE (sr * ms + 500) \div 1000

Smoother_set_target(s, sr, target) ==
    LET n == num_steps(s.ms, sr)
    IN  [s EXCEPT !.target = target,
                  !.steps_left = n,
                  !.step_size = IF n > 0 THEN TruncDiv(target - s.current, n) ELSE 0]

\* Smoother::next: the smoother after the call
Smoother_next(s) ==
    IF s.steps_left > 0
    THEN [s EXCEPT !.steps_left = s.steps_left - 1,
                   !.current = IF s.steps_left <= 1 THEN s.target
                               ELSE s.current + s.step_size]
    ELSE s

\* Smoother::next: the value the call returns
Smoother_value(s) ==
    IF s.steps_left > 0 THEN Smoother_next(s).current ELSE s.target

-----------------------------------------------------------------------------
(* Values of the program *)

\* nih_plug::util::midi_note_to_freq: 440 * 2^((note - 69) / 12), here to the
\* nearest Hz for the notes of the model
midi_note_to_freq(note) ==
    CASE note = 0  -> 8
      [] note = 69 -> 440

\* OscParams::default: the gain parameter, -10 dB, smoothed over 3 ms
DefaultGainSmoother == Smoother_new(3, -10)

\* Osc::default
Default ==
    [sample_rate    |-> 1,
     phase          |-> 0,
     midi_note_id   |-> 0,
     midi_note_freq |-> 1,
     midi_note_gain |-> Smoother_new(5, 0)]

\* NoteEvent, with timing() its sample offset in the block
EventsAt(n) ==
    [kind : {"NoteOn"}, note : Notes, value : Velocities, timing : 0 .. n - 1]
    \cup [kind : {"NoteOff"}, note : Notes, value : {0}, timing : 0 .. n - 1]
    \cup [kind : {"PolyPressure"}, note : Notes, value : Pressures, timing : 0 .. n - 1]

\* the host's k events for a block of n samples: sorted by timing
BlockEvents ==
    [n \in 1 .. MaxSamples |-> [k \in 0 .. MaxEvents |->
        { es \in [1 .. k -> EventsAt(n)] :
            \A i \in 1 .. k - 1 : es[i].timing <= es[i + 1].timing }]]

\* one output sample, sine * db_to_gain_fast(gain) with sine = sin(phase * TAU)
\* * amplitude, kept as its factors
Sample(raw, amp, g) == [raw |-> raw, amp |-> amp, gain |-> g]

\* the sample is exactly 0.0: a zero factor and no NaN (sin of an infinite
\* phase is NaN; db_to_gain_fast is positive)
IsZero(s) == s.raw # Inf /\ (s.amp = 0 \/ s.raw = 0)

NoRamp ==
    [set |-> FALSE, sr |-> 0, from |-> 0, prev |-> 0, val |-> 0, calls |-> 0,
     released |-> FALSE]

-----------------------------------------------------------------------------
(* Osc::calculate_sine: the phase after the call *)

calculate_sine(ph, frequency, sr) ==
    LET phase_delta == FDiv(frequency, sr)
        advanced == FAdd(ph, phase_delta)
    IN  IF advanced >= PhaseDen THEN FSub(advanced, PhaseDen) ELSE advanced

(* process(): the arms of the match on a pulled event.  Each gives the note
   state after the arm. *)

NoteState == [id |-> midi_note_id, freq |-> midi_note_freq, gain |-> midi_note_gain]

\* OnNoteOn that looks the frequency up before the note id is stored
OnNoteOn_stale_freq(st, note, velocity, sr) ==
    [id   |-> note,
     freq |-> midi_note_to_freq(st.id),
     gain |-> Smoother_set_target(st.gain, sr, velocity)]

OnNoteOn(st, note, velocity, sr) ==
    [id   |-> note,
     freq |-> midi_note_to_freq(note),
     gain |-> Smoother_set_target(st.gain, sr, velocity)]

\* OnNoteOff without the guard on the held note
OnNoteOff_any(st, note, sr) ==
    [st EXCEPT !.gain = Smoother_set_target(st.gain, sr, 0)]

\* OnNoteOff that also forgets the note it releases
OnNoteOff_clears(st, note, sr) ==
    IF note = st.id
    THEN [id   |-> Default.midi_note_id,
          freq |-> Default.midi_note_freq,
          gain |-> Smoother_set_target(st.gain, sr, 0)]
    ELSE st

OnNoteOff(st, note, sr) ==
    IF note = st.id
    THEN [st EXCEPT !.gain = Smoother_set_target(st.gain, sr, 0)]
    ELSE st

\* OnPolyPressure that takes the pressure only while the gate is open
OnPolyPressure_gated(st, note, pressure, sr) ==
    IF note = st.id /\ st.gain.target # 0
    THEN [st EXCEPT !.gain = Smoother_set_target(st.gain, sr, pressure)]
    ELSE st

OnPolyPressure(st, note, pressure, sr) ==
    IF note = st.id
    THEN [st EXCEPT !.gain = Smoother_set_target(st.gain, sr, pressure)]
    ELSE st

OnEvent(st, ev, sr) ==
    CASE ev.kind = "NoteOn"       -> OnNoteOn(st, ev.note, ev.value, sr)
      [] ev.kind = "NoteOff"      -> OnNoteOff(st, ev.note, sr)
      [] ev.kind = "PolyPressure" -> OnPolyPressure(st, ev.note, ev.value, sr)

\* Due without the test of the timing
Due_always(ev, i) == TRUE

\* the loop goes on to the match: `if event.timing() > sid { break; }` not taken
Due(ev, i) == ~(ev.timing > i)

-----------------------------------------------------------------------------
Init ==
    /\ sample_rate = Default.sample_rate
    /\ phase = Default.phase
    /\ midi_note_id = Default.midi_note_id
    /\ midi_note_freq = Default.midi_note_freq
    /\ midi_note_gain = Default.midi_note_gain
    /\ gain_smoothed = DefaultGainSmoother
    /\ initialized = FALSE
    /\ pc = "idle"
    /\ sid = 0
    /\ block_len = 0
    /\ events = << >>
    /\ gain = DefaultGainSmoother.current
    /\ out = [c \in Channels |-> Sample(0, 0, DefaultGainSmoother.current)]
    /\ block_events = << >>
    /\ pulled = 0
    /\ dispatched = << >>
    /\ gain_calls = 0
    /\ amp_calls = 0
    /\ ramp = NoRamp
    /\ note_on_seen = FALSE
    /\ after_reset = FALSE
    /\ samples_done = 0
    /\ events_used = 0

procLocals == << pc, sid, block_len, events, gain, out, block_events, pulled,
                 dispatched, gain_calls, amp_calls >>

\* Plugin::initialize
Initialize(sr) ==
    /\ pc = "idle"
    /\ sample_rate' = sr
    /\ initialized' = TRUE
    /\ after_reset' = FALSE
    /\ UNCHANGED << phase, midi_note_id, midi_note_freq, midi_note_gain,
                    gain_smoothed, ramp, note_on_seen, samples_done, events_used >>
    /\ UNCHANGED procLocals

\* reset that leaves the note id
Reset_keeps_id ==
    /\ pc = "idle"
    /\ phase' = Default.phase
    /\ midi_note_freq' = Default.midi_note_freq
    /\ midi_note_gain' = Default.midi_note_gain
    /\ ramp' = NoRamp
    /\ note_on_seen' = FALSE
    /\ after_reset' = TRUE
    /\ UNCHANGED << sample_rate, midi_note_id, gain_smoothed, initialized,
                    samples_done, events_used >>
    /\ UNCHANGED procLocals

\* reset that also copies the sample rate of the fresh default
Reset_resets_rate ==
    /\ pc = "idle"
    /\ sample_rate' = Default.sample_rate
    /\ phase' = Default.phase
    /\ midi_note_freq' = Default.midi_note_freq
    /\ midi_note_gain' = Default.midi_note_gain
    /\ midi_note_id' = Default.midi_note_id
    /\ ramp' = NoRamp
    /\ note_on_seen' = FALSE
    /\ after_reset' = TRUE
    /\ UNCHANGED << gain_smoothed, initialized, samples_done, events_used >>
    /\ UNCHANGED procLocals

\* Plugin::reset
Reset ==
    /\ pc = "idle"
    /\ phase' = Default.phase
    /\ midi_note_freq' = Default.midi_note_freq
    /\ midi_note_gain' = Default.midi_note_gain
    /\ midi_note_id' = Default.midi_note_id
    /\ ramp' = NoRamp
    /\ note_on_seen' = FALSE
    /\ after_reset' = TRUE
    /\ UNCHANGED << sample_rate, gain_smoothed, initialized, samples_done, events_used >>
    /\ UNCHANGED procLocals

\* the host changes the gain parameter between two blocks: the wrapper
\* retargets the parameter's smoother
SetGainParam(db) ==
    /\ pc = "idle"
    /\ initialized
    /\ gain_smoothed' = Smoother_set_target(gain_smoothed, sample_rate, db)
    /\ after_reset' = FALSE
    /\ UNCHANGED << sample_rate, phase, midi_note_id, midi_note_freq,
                    midi_note_gain, initialized, ramp, note_on_seen,
                    samples_done, events_used >>
    /\ UNCHANGED procLocals

\* Plugin::process is entered with a buffer of n samples and the block's events
BeginProcess(n, es) ==
    /\ pc = "idle"
    /\ initialized
    /\ samples_done + n <= MaxSamples
    /\ events_used + Len(es) <= MaxEvents
    /\ samples_done' = samples_done + n
    /\ events_used' = events_used + Len(es)
    /\ pc' = "gain"
    /\ sid' = 0
    /\ block_len' = n
    /\ events' = es
    /\ block_events' = es
    /\ pulled' = 0
    /\ dispatched' = << >>
    /\ gain_calls' = 0
    /\ amp_calls' = 0
    /\ note_on_seen' = (note_on_seen \/ \E i \in 1 .. Len(es) : es[i].kind = "NoteOn")
    /\ after_reset' = FALSE
    /\ UNCHANGED << sample_rate, phase, midi_note_id, midi_note_freq,
                    midi_note_gain, gain_smoothed, initialized, gain, out, ramp >>

\* let gain = self.params.gain.smoothed.next();
NextGain ==
    /\ pc = "gain"
    /\ gain' = Smoother_value(gain_smoothed)
    /\ gain_smoothed' = Smoother_next(gain_smoothed)
    /\ gain_calls' = gain_calls + 1
    /\ pc' = "events"
    /\ UNCHANGED << sample_rate, phase, midi_note_id, midi_note_freq,
                    midi_note_gain, initialized, sid, block_len, events, out,
                    block_events, pulled, dispatched, amp_calls, ramp,
                    note_on_seen, after_reset, samples_done, events_used >>

\* one turn of `while let Some(event) = context.next_event()`: the event is
\* taken from the context, then either the loop breaks or the match runs
PullEvent ==
    /\ pc = "events"
    /\ events # << >>
    /\ LET ev == Head(events)
           st == OnEvent(NoteState, ev, sample_rate)
       IN  /\ events' = Tail(events)
           /\ pulled' = pulled + 1
           /\ IF Due(ev, sid)
              THEN /\ midi_note_id' = st.id
                   /\ midi_note_freq' = st.freq
                   /\ midi_note_gain' = st.gain
                   /\ ramp' = IF ev.kind = "NoteOn" \/ ev.note = midi_note_id
                              THEN [set |-> TRUE, sr |-> sample_rate,
                                    from |-> midi_note_gain.current,
                                    prev |-> midi_note_gain.current,
                                    val |-> midi_note_gain.current, calls |-> 0,
                                    released |-> CASE ev.kind = "NoteOn" -> FALSE
                                                   [] ev.kind = "NoteOff" -> TRUE
                                                   [] OTHER -> ramp.released]
                              ELSE ramp
                   /\ dispatched' = Append(dispatched,
                          [idx |-> pulled + 1, sid |-> sid, held |-> midi_note_id])
                   /\ pc' = "events"
              ELSE /\ pc' = "sine"
                   /\ UNCHANGED << midi_note_id, midi_note_freq, midi_note_gain,
                                   ramp, dispatched >>
    /\ UNCHANGED << sample_rate, phase, gain_smoothed, initialized, sid,
                    block_len, gain, out, block_events, gain_calls, amp_calls,
                    note_on_seen, after_reset, samples_done, events_used >>

\* context.next_event() returns None: the while loop ends
NoEvent ==
    /\ pc = "events"
    /\ events = << >>
    /\ pc' = "sine"
    /\ UNCHANGED << sample_rate, phase, midi_note_id, midi_note_freq,
                    midi_note_gain, gain_smoothed, initialized, sid, block_len,
                    events, gain, out, block_events, pulled, dispatched,
                    gain_calls, amp_calls, ramp, note_on_seen,
                    after_reset, samples_done, events_used >>

\* ComputeSample that calls midi_note_gain.next() only while the ramp runs
ComputeSample_lazy_next ==
    /\ pc = "sine"
    /\ phase' = calculate_sine(phase, midi_note_freq, sample_rate)
    /\ midi_note_gain' = Smoother_next(midi_note_gain)
    /\ amp_calls' = IF midi_note_gain.steps_left > 0 THEN amp_calls + 1 ELSE amp_calls
    /\ ramp' = [ramp EXCEPT !.prev = ramp.val,
                            !.val = Smoother_value(midi_note_gain),
                            !.calls = ramp.calls + 1]
    /\ out' = [c \in Channels |->
                  Sample(phase, Smoother_value(midi_note_gain), gain)]
    /\ sid' = sid + 1
    /\ pc' = IF sid + 1 < block_len THEN "gain" ELSE "done"
    /\ UNCHANGED << sample_rate, midi_note_id, midi_note_freq, gain_smoothed,
                    initialized, block_len, events, gain, block_events, pulled,
                    dispatched, gain_calls, note_on_seen, after_reset, samples_done, events_used >>

\* ComputeSample that takes the sine anew for each channel after the first
ComputeSample_per_channel ==
    /\ pc = "sine"
    /\ phase' = calculate_sine(phase, midi_note_freq, sample_rate)
    /\ midi_note_gain' = Smoother_next(midi_note_gain)
    /\ amp_calls' = amp_calls + 1
    /\ ramp' = [ramp EXCEPT !.prev = ramp.val,
                            !.val = Smoother_value(midi_note_gain),
                            !.calls = ramp.calls + 1]
    /\ out' = [c \in Channels |->
                  Sample(IF c = 1 THEN phase ELSE phase',
                         Smoother_value(midi_note_gain), gain)]
    /\ sid' = sid + 1
    /\ pc' = IF sid + 1 < block_len THEN "gain" ELSE "done"
    /\ UNCHANGED << sample_rate, midi_note_id, midi_note_freq, gain_smoothed,
                    initialized, block_len, events, gain, block_events, pulled,
                    dispatched, gain_calls, note_on_seen, after_reset, samples_done, events_used >>

\* self.calculate_sine(self.midi_note_freq) * self.midi_note_gain.next(), then
\* the write of sine * db_to_gain_fast(gain) to every channel; the loop goes to
\* the next sample, or ends after the last
ComputeSample ==
    /\ pc = "sine"
    /\ phase' = calculate_sine(phase, midi_note_freq, sample_rate)
    /\ midi_note_gain' = Smoother_next(midi_note_gain)
    /\ amp_calls' = amp_calls + 1
    /\ ramp' = [ramp EXCEPT !.prev = ramp.val,
                            !.val = Smoother_value(midi_note_gain),
                            !.calls = ramp.calls + 1]
    /\ out' = [c \in Channels |->
                  Sample(phase, Smoother_value(midi_note_gain), gain)]
    /\ sid' = sid + 1
    /\ pc' = IF sid + 1 < block_len THEN "gain" ELSE "done"
    /\ UNCHANGED << sample_rate, midi_note_id, midi_note_freq, gain_smoothed,
                    initialized, block_len, events, gain, block_events, pulled,
                    dispatched, gain_calls, note_on_seen, after_reset, samples_done, events_used >>

\* ProcessStatus::KeepAlive: process() returns; its locals, the buffer and the
\* context are gone
Return ==
    /\ pc = "done"
    /\ pc' = "idle"
    /\ sid' = 0
    /\ block_len' = 0
    /\ events' = << >>
    /\ gain' = DefaultGainSmoother.current
    /\ out' = [c \in Channels |-> Sample(0, 0, DefaultGainSmoother.current)]
    /\ block_events' = << >>
    /\ pulled' = 0
    /\ dispatched' = << >>
    /\ gain_calls' = 0
    /\ amp_calls' = 0
    /\ UNCHANGED << sample_rate, phase, midi_note_id, midi_note_freq,
                    midi_note_gain, gain_smoothed, initialized, ramp,
                    note_on_seen, after_reset, samples_done, events_used >>

Next ==
    \/ \E sr \in SampleRates : Initialize(sr)
    \/ Reset
    \/ \E db \in GainTargets : SetGainParam(db)
    \/ \E n \in 1 .. MaxSamples - samples_done :
          \E k \in 0 .. MaxEvents - events_used :
             \E es \in BlockEvents[n][k] : BeginProcess(n, es)
    \/ NextGain
    \/ PullEvent
    \/ NoEvent
    \/ ComputeSample
    \/ Return

Spec == Init /\ [][Next]_vars

-----------------------------------------------------------------------------
(* Properties *)

InUnit(ph) == 0 <= ph /\ ph < PhaseDen

PulledEvent == Head(events)

\* ceil(timeConstant * sampleRate) for the time constant of smoother s
CeilSteps(s, sr) == (s.ms * sr + 999) \div 1000

\* C1: in a session with a positive sample rate, when sample sid is about to
\* be computed, every event of the block with timing <= sid has been dispatched
\* to the match (none was dropped).
C1_DueEventsDispatched ==
    (pc = "sine" /\ sample_rate > 0) =>
        \A k \in 1 .. Len(block_events) :
            block_events[k].timing <= sid =>
                \E j \in 1 .. Len(dispatched) : dispatched[j].idx = k

\* C2: with a sample rate > 0, a step from a phase in [0, 1) leaves the phase
\* in [0, 1) (so the phase stays there from 0 on, after any number of calls of
\* calculate_sine).
C2_PhaseInUnit ==
    [][(sample_rate > 0 /\ InUnit(phase)) => InUnit(phase')]_vars

\* C3: in a session with a positive sample rate, as long as no NoteOn was
\* supplied since power-on/reset, the amplitude smoother's target is 0 and every
\* sample written is exactly 0.
C3_SilentWithoutNoteOn ==
    (~note_on_seen /\ sample_rate > 0) =>
        /\ midi_note_gain.target = 0
        /\ \A c \in Channels : IsZero(out[c])

\* C4: a dispatched NoteOn(note, velocity) sets the held note id to note, the
\* frequency to midi_note_to_freq(note) and the amplitude target to velocity,
\* whatever the state before.
C4_NoteOnOverrides ==
    [][(/\ pc = "events"
        /\ events # << >>
        /\ PulledEvent.kind = "NoteOn"
        /\ PulledEvent.timing <= sid)
       => (/\ midi_note_id' = PulledEvent.note
           /\ midi_note_freq' = midi_note_to_freq(PulledEvent.note)
           /\ midi_note_gain'.target = PulledEvent.value)]_vars

\* C4 witness: a NoteOn was dispatched right after a NoteOn of another note.
C4_Witness ==
    /\ Len(dispatched) = 2
    /\ block_events[dispatched[1].idx].kind = "NoteOn"
    /\ block_events[dispatched[2].idx].kind = "NoteOn"
    /\ block_events[dispatched[1].idx].note # block_events[dispatched[2].idx].note
    /\ midi_note_id = block_events[dispatched[2].idx].note

\* C5: a dispatched NoteOff or PolyPressure for a note other than the held one
\* leaves the held note id, the frequency and the amplitude target as they were.
C5_ForeignNoteIgnored ==
    [][(/\ pc = "events"
        /\ events # << >>
        /\ PulledEvent.kind \in {"NoteOff", "PolyPressure"}
        /\ PulledEvent.note # midi_note_id)
       => (/\ midi_note_id' = midi_note_id
           /\ midi_note_freq' = midi_note_freq
           /\ midi_note_gain'.target = midi_note_gain.target)]_vars

\* C5 witness: a NoteOff for a note that is not held was dispatched while the
\* amplitude target was not 0.
C5_Witness ==
    /\ Len(dispatched) > 0
    /\ LET d == dispatched[Len(dispatched)]
       IN  /\ block_events[d.idx].kind = "NoteOff"
           /\ block_events[d.idx].note # d.held
    /\ midi_note_gain.target # 0

\* C6: with a frequency <= 0 or a sample rate <= 0, computing a sample leaves
\* the phase as it was.
C6_FrozenPhase ==
    [][(pc = "sine" /\ (midi_note_freq <= 0 \/ sample_rate <= 0))
       => phase' = phase]_vars

C9_InOrderNeverEarly ==
    \A j \in 1 .. Len(dispatched) :
        /\ block_events[dispatched[j].idx].timing <= dispatched[j].sid
        /\ j > 1 => dispatched[j - 1].idx < dispatched[j].idx

\* C9 witness: two different events with the same timing were both dispatched.
C9_Witness ==
    /\ Len(dispatched) = 2
    /\ block_events[1].timing = block_events[2].timing
    /\ block_events[1] # block_events[2]
    /\ dispatched[1].idx = 1
    /\ dispatched[2].idx = 2

\* C10: in a block, at sample index sid each smoother has been stepped once per
\* finished iteration (the gain smoother once more between its next() and the
\* end of the iteration), and N times each after the N samples.
C10_OncePerSample ==
    /\ pc = "gain" => (gain_calls = sid /\ amp_calls = sid)
    /\ pc \in {"events", "sine"} => (gain_calls = sid + 1 /\ amp_calls = sid)
    /\ pc = "done" => (sid = block_len /\ gain_calls = block_len /\ amp_calls = block_len)

\* C10 witness: a block of two samples is done, with two events dispatched at
\* one sample and none at the other.
C10_Witness ==
    /\ pc = "done"
    /\ block_len = 2
    /\ Len(dispatched) = 2
    /\ dispatched[1].sid = dispatched[2].sid

\* C11: a step of reset() and every step of process() (its entry, its event
\* dispatches, its return) leave sample_rate as it is: only initialize() sets it.
C11_RateSetByInitializeOnly ==
    [][(after_reset' \/ pc # "idle" \/ pc' # "idle")
       => sample_rate' = sample_rate]_vars

\* C11 witness: after initialize(400), a block with an event and a reset(), the
\* sample rate is still 400.
C11_Witness ==
    /\ after_reset
    /\ samples_done > 0
    /\ events_used > 0
    /\ sample_rate = 400

\* C12: the write of a sample index puts the same sample on every channel: the
\* sine of the phase before the advance, times the value midi_note_gain.next()
\* returned in this iteration, times the gain taken at the top of this iteration.
C12_SameSampleEveryChannel ==
    [][pc = "sine" =>
        \A c \in Channels : out'[c] = Sample(phase, ramp'.val, gain)]_vars

\* C12 witness: the second sample of a block was written, with a phase and an
\* amplitude other than 0 and the gain away from its default.
C12_Witness ==
    /\ pc = "done"
    /\ sid = 2
    /\ \A c \in Channels : out[c] = out[1]
    /\ out[1].raw # 0
    /\ out[1].amp # 0
    /\ out[1].gain # DefaultGainSmoother.current

\* C13: a pulled NoteOff or PolyPressure leaves the held note id and the
\* frequency as they were; dispatched for the held note, a NoteOff sets the
\* amplitude target to 0 and a PolyPressure sets it to its pressure; the note id
\* and the frequency change only in the dispatch of a NoteOn or in reset().
C13_OffAndPressureKeepNote ==
    [][/\ (pc = "events" /\ events # << >> /\ PulledEvent.kind # "NoteOn")
          => (/\ midi_note_id' = midi_note_id
              /\ midi_note_freq' = midi_note_freq
              /\ (PulledEvent.timing <= sid /\ PulledEvent.note = midi_note_id)
                    => midi_note_gain'.target =
                          IF PulledEvent.kind = "NoteOff" THEN 0 ELSE PulledEvent.value)
       /\ (midi_note_id' # midi_note_id \/ midi_note_freq' # midi_note_freq)
          => \/ after_reset'
             \/ (pc = "events" /\ events # << >> /\ PulledEvent.kind = "NoteOn")]_vars

\* C13 witness: after NoteOn(69), a NoteOff(69) was dispatched: note 69 is still
\* held at 440 Hz and the amplitude target is 0.
C13_Witness ==
    /\ Len(dispatched) = 2
    /\ block_events[dispatched[1].idx].kind = "NoteOn"
    /\ block_events[dispatched[2].idx].kind = "NoteOff"
    /\ block_events[dispatched[2].idx].note = dispatched[2].held
    /\ midi_note_id = 69
    /\ midi_note_freq = midi_note_to_freq(69)
    /\ midi_note_gain.target = 0

=============================================================================
